---- MODULE Spec2Model ----
(***************************************************************************)
(* Model of node-torrent's download coordinator (lib/download-manager.js), *)
(* piece collector (lib/piece-collector.js), queues (lib/event-queue.js)   *)
(* and peer session (lib/peer.js).                                         *)
(*                                                                         *)
(* Spec      : the coordinator and the collector, one atomic action per    *)
(*             event handler, with every peer session seen through the     *)
(*             events it emits ('ready', 'download complete', 'close').    *)
(* SpecPeer  : one peer session at the level of the bytes it receives.     *)
(***************************************************************************)
EXTENDS Integers, Sequences, FiniteSets, TLC

\* ------------------------------------------------------------------ bounds
NPieces == 2
NumPeers == 2
PieceLength == 2
\* frames a remote peer sends to one session, and how many of them may be on
\* their way at once
MaxFrames == 3
MaxFramesInFlight == 2
\* the length of a 'data' event that carries less than all that is on the wire
MaxChunk == 5
\* The descriptors the work list is built for: piece lengths and piece counts
MaxPieceSize == 4
MaxHashes == 4

\* The objects and the length of a queue taken by itself
NumItems == 3
MaxQueueLen == 3

\* ------------------------------------------------------------- descriptor
Peers == 1..NumPeers
Pieces == 0..(NPieces - 1)
\* downloadInfo.length: the last piece is one byte short of a full piece
TotalLength == PieceLength * NPieces - 1

\* A piece buffer is an abstract content id; two ids share each digest, so
\* that "the digest matches" and "the content is the original" differ.
Buffers == 0..(2 * NPieces - 1)
sha1(buff) == buff \div 2
pieceHashes == [i \in Pieces |-> sha1(2 * i)]

\* The value of an empty collector slot (a JavaScript undefined)
Undefined == -1

Min(a, b) == IF a < b THEN a ELSE b

\* One entry of the work list built by the constructor
Work(i) ==
  LET begin == i * PieceLength
      end == Min(begin + PieceLength, TotalLength)
  IN [index |-> i, size |-> end - begin]

RECURSIVE BuildWork(_)
BuildWork(i) == IF i >= NPieces THEN << >> ELSE << Work(i) >> \o BuildWork(i + 1)

VARIABLES
  unclaimed,       \* this.unclaimed.queue: work nobody is working on
  pending,         \* this.pending: <<[peer, work, started]>>
  unemployed,      \* this.unemployed.queue: peers without a job
  totalConnected,  \* this.totalConnected.queue
  result,          \* the PieceCollector: [collection, piecesCollected, curPtr]
  fStream,         \* the output stream: [written, needDrain, drainListeners]
  emitted,         \* events of the collector: [collectionComplete, writeComplete]
  exited,          \* process.exit was called
  peers,           \* per peer session: [status, bitfield, currentPiece, ended]
  lastOp,          \* history: what the last handler did
  session,         \* SpecPeer: the fields of one Peer object
  wire,            \* SpecPeer: bytes the remote peer has sent, not yet received
  remote,          \* SpecPeer: history of what the remote peer sent
  lastRun          \* SpecPeer: history of the last run of the 'data' handler

coordVars == << unclaimed, pending, unemployed, totalConnected, result, fStream,
                emitted, exited, peers, lastOp >>

peerVars == << session, wire, remote, lastRun >>

vars == << unclaimed, pending, unemployed, totalConnected, result, fStream,
           emitted, exited, peers, lastOp, session, wire, remote, lastRun >>

\* ------------------------------------------------------------------ bytes
\* buf.readUInt32BE(offset), offset counted from 0
ReadUInt32BE(buf, offset) ==
  buf[offset + 1] * 16777216 + buf[offset + 2] * 65536
    + buf[offset + 3] * 256 + buf[offset + 4]

\* buf.writeUInt32BE(n): the four bytes written
UInt32BE(n) ==
  << (n \div 16777216) % 256, (n \div 65536) % 256, (n \div 256) % 256, n % 256 >>

\* buf.slice(start, end): both ends are clamped to the buffer
Slice(buf, start, end) ==
  SubSeq(buf, Min(start, Len(buf)) + 1, Min(end, Len(buf)))

\* ------------------------------------------------------------ EventQueue
RECURSIVE IndexOfFrom(_, _, _)
IndexOfFrom(q, obj, i) ==
  IF i > Len(q) THEN 0
  ELSE IF q[i] = obj THEN i ELSE IndexOfFrom(q, obj, i + 1)

\* Array.indexOf, 1-based; 0 stands for JavaScript's -1
IndexOf(q, obj) == IndexOfFrom(q, obj, 1)

RemoveAt(q, idx) == SubSeq(q, 1, idx - 1) \o SubSeq(q, idx + 1, Len(q))

QueuePush(q, obj) == Append(q, obj)

\* Array.pop: the last element is taken
QueuePopped(q) == q[Len(q)]
QueueAfterPop(q) == SubSeq(q, 1, Len(q) - 1)

\* Mutant: nothing is removed
QueueRemoveNothing(q, obj) == q

\* Mutant: the last element of the queue is removed, whatever was asked for
QueueRemoveLast(q, obj) == SubSeq(q, 1, Len(q) - 1)

\* splice(indexOf(obj), 1): with indexOf = -1, splice removes the LAST element
QueueRemove(q, obj) ==
  LET idx == IndexOf(q, obj)
  IN IF idx = 0
     THEN (IF Len(q) = 0 THEN q ELSE SubSeq(q, 1, Len(q) - 1))
     ELSE RemoveAt(q, idx)

\* -------------------------------------------------------------- Bitfield
Bit(byte, k) == (byte \div (2 ^ (7 - k))) % 2

\* bitfield.get(index): most significant bit first, false beyond the buffer
BitfieldGet(bitfield, index) ==
  LET j == index \div 8
  IN j < Len(bitfield) /\ Bit(bitfield[j + 1], index % 8) = 1

\* bitfield.set(index): nothing is set beyond the buffer
BitfieldSet(bitfield, index) ==
  LET j == index \div 8
  IN IF j < Len(bitfield) /\ Bit(bitfield[j + 1], index % 8) = 0
     THEN [bitfield EXCEPT ![j + 1] = @ + 2 ^ (7 - (index % 8))]
     ELSE bitfield

hasPiece(bitfield, index) == BitfieldGet(bitfield, index)

\* The bitfields a peer may announce: empty, or one byte over the pieces
BitfieldPayloads ==
  { << >> } \cup { << b * (2 ^ (8 - NPieces)) >> : b \in 0..(2 ^ NPieces - 1) }

\* ---------------------------------------------------------- PendingQueue
\* pending.push(job): the job is appended, not yet started
PendingPush(pq, peer, work) ==
  Append(pq, [peer |-> peer, work |-> work, started |-> FALSE])

RECURSIVE WorkerIndexFrom(_, _, _)
WorkerIndexFrom(pq, peer, i) ==
  IF i > Len(pq) THEN 0
  ELSE IF pq[i].peer = peer THEN i ELSE WorkerIndexFrom(pq, peer, i + 1)

\* Mutant: the entry of the peer stays in pending
RemoveWorkerNothing(pq, peer) == pq

\* pending.removeWorker(peer): the entry of this peer is removed
RemoveWorker(pq, peer) ==
  LET idx == WorkerIndexFrom(pq, peer, 1)
  IN IF idx = 0 THEN pq ELSE RemoveAt(pq, idx)

\* pending.numWorkers(work): the entries that hold this piece
NumWorkers(pq, work) ==
  Cardinality({ i \in 1..Len(pq) : pq[i].work.index = work.index })

\* peer.assignWork(piece): a fresh currentPiece replaces whatever was there
assignWork(ps, peer, piece) ==
  [ps EXCEPT ![peer].currentPiece = { piece }]

\* What startAll records of one call of assignWork: the peer, the piece, and
\* whether the peer still had an assignment at the call
Started(st, i) ==
  [peer |-> st.pending[i].peer, index |-> st.pending[i].work.index,
   outstanding |-> st.peers[st.pending[i].peer].currentPiece # {}]

\* Mutant: assignWork is called on every entry, started before or not
RECURSIVE StartAllFromAgain(_, _)
StartAllFromAgain(st, i) ==
  IF i > Len(st.pending) THEN st
  ELSE StartAllFromAgain(
         [pending |-> [st.pending EXCEPT ![i].started = TRUE],
          peers |-> assignWork(st.peers, st.pending[i].peer, st.pending[i].work),
          calls |-> st.calls \cup { Started(st, i) }],
         i + 1)

\* pending.startAll(): assignWork on every entry not yet started, in order.
\* st = [pending, peers, calls]
RECURSIVE StartAllFrom(_, _)
StartAllFrom(st, i) ==
  IF i > Len(st.pending) THEN st
  ELSE IF st.pending[i].started THEN StartAllFrom(st, i + 1)
  ELSE StartAllFrom(
         [pending |-> [st.pending EXCEPT ![i].started = TRUE],
          peers |-> assignWork(st.peers, st.pending[i].peer, st.pending[i].work),
          calls |-> st.calls \cup { Started(st, i) }],
         i + 1)

StartAll(st) == StartAllFrom(st, 1)

\* -------------------------------------------------------- PieceCollector
contains(c, index) == c.collection[index] # Undefined

isComplete(c) == c.piecesCollected = NPieces

\* Mutant: the slot is taken to be empty every time
SlotAlwaysEmpty(c, index) == TRUE

\* The slot test of collect: !this.collection[index]
SlotEmpty(c, index) == c.collection[index] = Undefined

\* Mutant: a piece collected again is counted again
CollectStoreCountingAgain(c, index, buff) ==
  IF SlotEmpty(c, index)
  THEN [c EXCEPT !.collection[index] = buff,
                 !.piecesCollected = @ + 1]
  ELSE [c EXCEPT !.piecesCollected = @ + 1]

\* collect(index, buff) up to the completeness test: a filled slot is left alone
CollectStore(c, index, buff) ==
  IF SlotEmpty(c, index)
  THEN [c EXCEPT !.collection[index] = buff,
                 !.piecesCollected = @ + 1]
  ELSE c

\* Whether this collect call completes the collection (and so emits
\* 'collection complete' and starts write)
CollectCompletes(c, index) ==
  SlotEmpty(c, index) /\ c.piecesCollected + 1 = NPieces

\* Mutant: every call of write() starts again at slot 0
WriteBatchFromStart(c, k) ==
  [j \in 1..k |-> [slot |-> j - 1,
                   data |-> IF j - 1 \in Pieces THEN c.collection[j - 1]
                            ELSE Undefined]]

\* The slots one call of write() hands to the stream: the do-while loop runs
\* k times, k >= 1, from curPtr on
WriteBatch(c, k) ==
  [j \in 1..k |-> [slot |-> c.curPtr + j - 1,
                   data |-> IF c.curPtr + j - 1 \in Pieces
                            THEN c.collection[c.curPtr + j - 1]
                            ELSE Undefined]]

\* A run of the do-while loop is possible with k writes, the last returning ok:
\* the loop goes on while curPtr < numPieces and the write returned true
WriteRunPossible(c, k, ok) ==
  /\ k >= 1
  /\ \/ c.curPtr + k >= NPieces
     \/ ~ok
  /\ \A j \in 1..(k - 1) : c.curPtr + j < NPieces

\* Mutant: 'write complete' is emitted at the end of every call of write()
WriteAlwaysComplete(cw, k, ok) ==
  LET c == cw.result
  IN [result |-> [c EXCEPT !.curPtr = c.curPtr + k],
      fStream |-> [written |-> cw.fStream.written \o WriteBatch(c, k),
                   needDrain |-> ~ok,
                   drainListeners |-> cw.fStream.drainListeners],
      emitted |-> [cw.emitted EXCEPT !.writeComplete = @ + 1]]

\* Mutant: curPtr is not advanced by the writes
WriteKeepingPointer(cw, k, ok) ==
  LET c == cw.result
      done == (c.curPtr + k = NPieces)
  IN [result |-> c,
      fStream |-> [written |-> cw.fStream.written \o WriteBatch(c, k),
                   needDrain |-> ~ok,
                   drainListeners |-> IF done THEN cw.fStream.drainListeners
                                      ELSE cw.fStream.drainListeners + 1],
      emitted |-> [cw.emitted EXCEPT !.writeComplete =
                      IF done THEN @ + 1 ELSE @]]

\* write(): cw = [result, fStream, emitted]
Write(cw, k, ok) ==
  LET c == cw.result
      ptr == c.curPtr + k
      done == (ptr = NPieces)
  IN [result |-> [c EXCEPT !.curPtr = ptr],
      fStream |-> [written |-> cw.fStream.written \o WriteBatch(c, k),
                   needDrain |-> ~ok,
                   drainListeners |-> IF done THEN cw.fStream.drainListeners
                                      ELSE cw.fStream.drainListeners + 1],
      emitted |-> [cw.emitted EXCEPT !.writeComplete =
                      IF done THEN @ + 1 ELSE @]]

\* collect(index, buff), with the run of write() it may start
Collect(cw, index, buff, k, ok) ==
  LET stored == [cw EXCEPT !.result = CollectStore(cw.result, index, buff)]
  IN IF CollectCompletes(cw.result, index)
     THEN Write([stored EXCEPT !.emitted.collectionComplete = @ + 1], k, ok)
     ELSE stored

\* ------------------------------------------------------- DownloadManager
\* Mutant: the connection is left open
disconnectNothing(ps, peer) == ps

\* peer.disconnect(): conn.end(); the 'close' event comes later
disconnect(ps, peer) == [ps EXCEPT ![peer].ended = TRUE]

\* Mutant: the first peer of totalConnected is passed over
RECURSIVE DisconnectAllButFirst(_, _, _)
DisconnectAllButFirst(ps, tc, i) ==
  IF i > Len(tc) THEN ps
  ELSE DisconnectAllButFirst(IF i = 1 THEN ps ELSE disconnect(ps, tc[i]),
                             tc, i + 1)

\* The 'collection complete' listener: disconnect every peer of totalConnected
RECURSIVE DisconnectAll(_, _, _)
DisconnectAll(ps, tc, i) ==
  IF i > Len(tc) THEN ps ELSE DisconnectAll(disconnect(ps, tc[i]), tc, i + 1)

\* Mutant: the first unclaimed piece is taken whatever the bitfield says
FirstUnclaimedAny(uq, bitfield, i) == IF Len(uq) = 0 THEN 0 ELSE 1

\* for (const work of this.unclaimed) if (peer.hasPiece(work.index)) ...:
\* the position of the first unclaimed piece the peer has, 0 if none
RECURSIVE FirstUnclaimed(_, _, _)
FirstUnclaimed(uq, bitfield, i) ==
  IF i > Len(uq) THEN 0
  ELSE IF hasPiece(bitfield, uq[i].index) THEN i
  ELSE FirstUnclaimed(uq, bitfield, i + 1)

\* Mutant: a pending job counts as redundant work even when its piece is
\* already collected
RECURSIVE FirstRedundantCollectedToo(_, _, _, _)
FirstRedundantCollectedToo(pq, c, bitfield, i) ==
  IF i > Len(pq) THEN 0
  ELSE IF hasPiece(bitfield, pq[i].work.index) THEN i
  ELSE FirstRedundantCollectedToo(pq, c, bitfield, i + 1)

\* Mutant: a pending job is never taken as redundant work
FirstRedundantNever(pq, c, bitfield, i) == 0

\* for (const job of this.pending) ...: the position of the first pending job
\* whose piece is not collected and which the peer has, 0 if none
RECURSIVE FirstRedundant(_, _, _, _)
FirstRedundant(pq, c, bitfield, i) ==
  IF i > Len(pq) THEN 0
  ELSE IF ~contains(c, pq[i].work.index) /\ hasPiece(bitfield, pq[i].work.index) THEN i
  ELSE FirstRedundant(pq, c, bitfield, i + 1)

\* What the assignment pass records of one push into pending
Assigned(peer, work, bitfield, redundant) ==
  [peer |-> peer, index |-> work.index,
   had |-> BitfieldGet(bitfield, work.index), redundant |-> redundant]

\* What the assignment pass records of one visit of an idle peer: the queues
\* as it found them (piece indices, in queue order) and what it did
Visit(q, peer, outcome, index) ==
  [peer |-> peer, bitfield |-> q.peers[peer].bitfield,
   unclaimed |-> [j \in 1..Len(q.unclaimed) |-> q.unclaimed[j].index],
   pending |-> [j \in 1..Len(q.pending) |-> q.pending[j].work.index],
   outcome |-> outcome, index |-> index]

\* The while loop of _assignWork.
\* q = [unclaimed, pending, unemployed, peers, assigned, visits, calls]
RECURSIVE AssignLoop(_, _)
AssignLoop(q, c) ==
  IF Len(q.unemployed) = 0 THEN q
  ELSE
    LET peer == QueuePopped(q.unemployed)
        rest == QueueAfterPop(q.unemployed)
        bitfield == q.peers[peer].bitfield
        u == FirstUnclaimed(q.unclaimed, bitfield, 1)
        r == FirstRedundant(q.pending, c, bitfield, 1)
    IN IF u # 0
       THEN AssignLoop(
              [q EXCEPT !.unemployed = rest,
                        !.unclaimed = QueueRemove(q.unclaimed, q.unclaimed[u]),
                        !.pending = PendingPush(q.pending, peer, q.unclaimed[u]),
                        !.assigned = @ \cup
                           { Assigned(peer, q.unclaimed[u], bitfield, FALSE) },
                        !.visits = @ \cup
                           { Visit(q, peer, "unclaimed", q.unclaimed[u].index) }], c)
       ELSE IF r # 0
       THEN AssignLoop(
              [q EXCEPT !.unemployed = rest,
                        !.pending = PendingPush(q.pending, peer, q.pending[r].work),
                        !.assigned = @ \cup
                           { Assigned(peer, q.pending[r].work, bitfield, TRUE) },
                        !.visits = @ \cup
                           { Visit(q, peer, "redundant", q.pending[r].work.index) }], c)
       ELSE AssignLoop(
              [q EXCEPT !.unemployed = rest,
                        !.peers = disconnect(q.peers, peer),
                        !.visits = @ \cup
                           { Visit(q, peer, "disconnect", Undefined) }], c)

\* Mutant: the pass runs whether or not the collection is complete
AssignWorkPassAlways(q, c) ==
  LET l == AssignLoop(q, c)
      st == StartAll([pending |-> l.pending, peers |-> l.peers,
                          calls |-> l.calls])
  IN [l EXCEPT !.pending = st.pending, !.peers = st.peers,
               !.calls = st.calls]

\* _assignWork(): nothing once the collection is complete; else the loop, then
\* pending.startAll()
AssignWorkPass(q, c) ==
  IF isComplete(c) THEN q
  ELSE LET l == AssignLoop(q, c)
           st == StartAll([pending |-> l.pending, peers |-> l.peers,
                               calls |-> l.calls])
       IN [l EXCEPT !.pending = st.pending, !.peers = st.peers,
                    !.calls = st.calls]

\* this.unemployed.push(p): the 'push' listener runs _assignWork
UnemployedPush(q, c, p) ==
  AssignWorkPass([q EXCEPT !.unemployed = QueuePush(q.unemployed, p)], c)

\* Mutant: the digest is not compared at all
HashNotChecked(buff, index) == TRUE

\* hash !== this.pieceHashes[index], negated: the digest of the buffer is the
\* one the descriptor gives for this piece
HashMatches(buff, index) == sha1(buff) = pieceHashes[index]

\* Mutant: a mismatching piece is always put back
RequeueOnMismatchAlways(c, pq, work) == TRUE

\* Mutant: the other workers of the piece are not counted
RequeueOnMismatchIgnoringWorkers(c, pq, work) == ~contains(c, work.index)

\* The requeue test of the 'download complete' listener on a mismatch; the
\* peer's own entry is still in pending
RequeueOnMismatch(c, pq, work) ==
  ~contains(c, work.index) /\ NumWorkers(pq, work) = 1

\* Mutant: the other workers of the piece are not counted
RequeueOnCloseIgnoringWorkers(c, pq, work) == ~contains(c, work.index)

\* The requeue test of the 'close' listener, after the peer's entry was removed
RequeueOnClose(c, pq, work) ==
  ~contains(c, work.index) /\ NumWorkers(pq, work) = 0

\* Mutant: the pair is left in pending
ReleaseWorkerKeepingEntry(q, c, p) == UnemployedPush(q, c, p)

\* The end of the 'download complete' listener: the pair leaves pending and
\* the peer is pushed to unemployed
ReleaseWorker(q, c, p) ==
  UnemployedPush([q EXCEPT !.pending = RemoveWorker(q.pending, p)], c, p)

\* ---------------------------------------------------------------- Message
MSG_CHOKE == 0
MSG_UNCHOKE == 1
MSG_INTERESTED == 2
MSG_NOT_INTERESTED == 3
MSG_HAVE == 4
MSG_BITFIELD == 5
MSG_REQUEST == 6
MSG_PIECE == 7
MSG_CANCEL == 8

\* Message.getMessageType(val): undefined for a value that is no type
getMessageType(val) == IF val \in 0..8 THEN val ELSE Undefined

\* new Message(buff): the length prefix and the type of the 5 bytes given
Message(buff) ==
  [msgLength |-> ReadUInt32BE(buff, 0), msgType |-> getMessageType(buff[5])]

\* Message.serialize(msgType, payload)
serialize(msgType, payload) ==
  UInt32BE(1 + Len(payload)) \o << msgType >> \o payload

\* ------------------------------------------------------------------- Peer
MAX_BACKLOG == 5
MAX_REQUEST_SIZE == 16384

\* 'BitTorrent protocol'
ProtocolString ==
  << 66, 105, 116, 84, 111, 114, 114, 101, 110, 116, 32,
     112, 114, 111, 116, 111, 99, 111, 108 >>

\* this.infoHash, as the 20 bytes its hex string stands for
InfoHash == [i \in 1..20 |-> 171]

\* What the session writes to the socket, by its fields
Sent(type, index, begin, length) ==
  [type |-> type, index |-> index, begin |-> begin, length |-> length]

\* createHandshakeRequest(peerId, infoHash): the 68 bytes written on connect,
\* by their first byte
createHandshakeRequest == Sent(19, 0, 0, 0)

\* this.conn.end()
connEnd(s) == [s EXCEPT !.ended = TRUE]

\* this.conn.write(msg): nothing is written once the socket was ended
connWrite(s, msg) ==
  IF s.ended THEN s ELSE [s EXCEPT !.sent = Append(@, msg)]

getUnreadSize(s) == Len(s.receivedData) - s.amountRead

CurrentPiece(s) == CHOOSE c \in s.currentPiece : TRUE

awaitingPiece(s) ==
  /\ s.currentPiece # {}
  /\ CurrentPiece(s).downloaded # CurrentPiece(s).work.size

\* decodeHandshake(buff): the fields _readHandshake looks at
decodeHandshake(buff) ==
  LET protocolIDLen == buff[1]
  IN [protocol |-> Slice(buff, 1, 1 + protocolIDLen),
      infoHash |-> Slice(buff, 9 + protocolIDLen, 29 + protocolIDLen),
      amountRead |-> 49 + protocolIDLen]

\* Mutant: the handshake is accepted whatever it says
readHandshakeUnchecked(s) ==
  LET handshake == decodeHandshake(s.receivedData)
  IN [s |-> [s EXCEPT !.handshakeComplete = TRUE,
                      !.amountRead = @ + handshake.amountRead],
      success |-> TRUE]

\* _readHandshake(): [s, success]
readHandshake(s) ==
  LET handshake == decodeHandshake(s.receivedData)
  IN IF handshake.protocol # ProtocolString
     THEN [s |-> connEnd(s), success |-> FALSE]
     ELSE IF handshake.infoHash # InfoHash
     THEN [s |-> connEnd(s), success |-> FALSE]
     ELSE [s |-> [s EXCEPT !.handshakeComplete = TRUE,
                           !.amountRead = @ + handshake.amountRead],
           success |-> TRUE]

\* _readBitfield(): [s, success]
readBitfield(s) ==
  IF getUnreadSize(s) < 5 THEN [s |-> s, success |-> FALSE]
  ELSE
    LET message == Message(Slice(s.receivedData, s.amountRead, s.amountRead + 5))
        readSize == message.msgLength - 1
        start == s.amountRead + 5
        end == start + readSize
    IN IF getUnreadSize(s) < 4 + message.msgLength
       THEN [s |-> s, success |-> FALSE]
       ELSE IF message.msgType # MSG_BITFIELD
       THEN [s |-> connEnd(s), success |-> FALSE]
       ELSE [s |-> [s EXCEPT !.bitfield = Slice(s.receivedData, start, end),
                             !.hasBitfield = TRUE,
                             !.amountRead = @ + message.msgLength + 4,
                             !.timeout = 0],
             success |-> TRUE]

\* Mutant: every request is for a full block, the last one included
sendRequestFullBlocks(s) ==
  LET cp == CurrentPiece(s)
      w == connWrite(s, Sent(MSG_REQUEST, cp.work.index, cp.requested,
                             MAX_REQUEST_SIZE))
  IN [w EXCEPT !.currentPiece = { [cp EXCEPT !.backlog = @ + 1,
                                             !.requested = @ + MAX_REQUEST_SIZE] }]

\* Mutant: requests are sent whether the peer has choked us or not
shouldRequestIgnoringChoke(s) ==
  /\ s.currentPiece # {}
  /\ CurrentPiece(s).backlog < MAX_BACKLOG
  /\ CurrentPiece(s).requested < CurrentPiece(s).work.size

\* _shouldRequest()
shouldRequest(s) ==
  /\ s.currentPiece # {}
  /\ ~s.isChoked
  /\ CurrentPiece(s).backlog < MAX_BACKLOG
  /\ CurrentPiece(s).requested < CurrentPiece(s).work.size

\* _sendRequest()
sendRequest(s) ==
  LET cp == CurrentPiece(s)
      amount == Min(MAX_REQUEST_SIZE, cp.work.size - cp.requested)
      w == connWrite(s, Sent(MSG_REQUEST, cp.work.index, cp.requested, amount))
  IN [w EXCEPT !.currentPiece = { [cp EXCEPT !.backlog = @ + 1,
                                             !.requested = @ + amount] }]

\* while (this._shouldRequest()) this._sendRequest()
RECURSIVE RequestPump(_)
RequestPump(s) == IF shouldRequest(s) THEN RequestPump(sendRequest(s)) ELSE s

\* Mutant: the counters of the new assignment start at the first block
NewCurrentPieceResumed(piece) ==
  [work |-> piece, downloaded |-> Min(MAX_REQUEST_SIZE, piece.size),
   requested |-> Min(MAX_REQUEST_SIZE, piece.size), backlog |-> 0,
   buff |-> [i \in 1..piece.size |-> 0]]

\* assignWork(piece), up to its call of _readAndProcessMessages
NewCurrentPiece(piece) ==
  [work |-> piece, downloaded |-> 0, requested |-> 0, backlog |-> 0,
   buff |-> [i \in 1..piece.size |-> 0]]

\* data.copy(buff, offset): what fits is copied, nothing beyond the target
BufferCopy(data, buff, offset) ==
  [i \in 1..Len(buff) |->
     IF i > offset /\ i - offset <= Len(data) THEN data[i - offset] ELSE buff[i]]

\* One pass of the while loop of _readAndProcessMessages, as the history
\* keeps it: where the header was read (counted from the first byte the remote
\* peer sent), what was parsed, how far the read cursor moved
Step(x, message, advance, after) ==
  [at |-> x.base + x.s.amountRead,
   msgLength |-> message.msgLength,
   msgType |-> message.msgType,
   advance |-> advance,
   awaiting |-> awaitingPiece(x.s),
   chokedBefore |-> x.s.isChoked,
   chokedAfter |-> after.isChoked]

\* The state after one pass of the loop that moved the cursor by advance
Passed(x, message, advance, after) ==
  [x EXCEPT !.s = [after EXCEPT !.amountRead = @ + advance],
            !.steps = Append(@, Step(x, message, advance, after))]

\* A RangeError thrown inside the 'data' handler: nothing catches it
Thrown(x) == [x EXCEPT !.s.crashed = TRUE]

\* How far the cursor moves past a MSG_PIECE that was not expected
UnexpectedPieceAdvance(message) == message.msgLength

\* How far the cursor moves past a message with no payload of interest
\* (MSG_CHOKE, MSG_UNCHOKE)
ChokeAdvance(message) == 5

\* How far the cursor moves past a MSG_HAVE
HaveAdvance(message) == 9

\* How far the cursor moves past a message of any other type, and past a
\* MSG_PIECE that _readPiece has read
FrameAdvance(message) == 4 + message.msgLength

\* The counters of currentPiece after _readPiece has taken a block of n bytes
BlockRead(cp, n) == [cp EXCEPT !.backlog = @ - 1, !.downloaded = @ + n]

\* _readPiece(message) for an expected piece: [s, advance], or a throw
\* when the payload is too short for the index and the offset
readPiece(s, message) ==
  LET readSize == message.msgLength - 1
      start == s.amountRead + 5
      payload == Slice(s.receivedData, start, start + readSize)
      index == ReadUInt32BE(payload, 0)
      offset == ReadUInt32BE(payload, 4)
      data == Slice(payload, 8, Len(payload))
      cp == CurrentPiece(s)
  IN IF index # cp.work.index
     THEN s
     ELSE [s EXCEPT !.currentPiece =
             { BlockRead([cp EXCEPT !.buff = BufferCopy(data, cp.buff, offset)],
                         Len(data)) }]

\* Mutant: the assignment is kept after the result is emitted
finalizeDownloadKeepingPiece(s) ==
  [s EXCEPT !.completed = Append(@, [work |-> CurrentPiece(s).work,
                                     buff |-> CurrentPiece(s).buff]),
            !.pc = "download complete"]

\* _finalizeDownload(): the result is emitted, currentPiece is cleared
finalizeDownload(s) ==
  [s EXCEPT !.completed = Append(@, [work |-> CurrentPiece(s).work,
                                     buff |-> CurrentPiece(s).buff]),
            !.currentPiece = {},
            !.pc = "download complete"]

\* The end of _readAndProcessMessages: the buffer is dropped when all of it
\* was read, then requests are sent
Finish(x) ==
  LET reset == getUnreadSize(x.s) = 0
      s1 == IF reset THEN [x.s EXCEPT !.receivedData = << >>, !.amountRead = 0]
            ELSE x.s
  IN [x EXCEPT !.s = RequestPump(s1),
               !.base = IF reset THEN @ + Len(x.s.receivedData) ELSE @]

\* The while loop of _readAndProcessMessages, up to the next event it emits.
\* x = [s, base, steps]; s.pc says which event's listeners run next
RECURSIVE MessageLoop(_)
MessageLoop(x) ==
  IF getUnreadSize(x.s) < 5 THEN Finish(x)
  ELSE
    LET s == x.s
        message == Message(Slice(s.receivedData, s.amountRead, s.amountRead + 5))
    IN IF message.msgLength > 2 * MAX_REQUEST_SIZE
       THEN [x EXCEPT !.s = connEnd(s)]
       ELSE IF getUnreadSize(s) < 4 + message.msgLength
       THEN x
       ELSE IF message.msgType = MSG_UNCHOKE
       THEN MessageLoop(Passed(x, message, ChokeAdvance(message),
                               [s EXCEPT !.isChoked = FALSE]))
       ELSE IF message.msgType = MSG_CHOKE
       THEN MessageLoop(Passed(x, message, ChokeAdvance(message),
                               [s EXCEPT !.isChoked = TRUE]))
       ELSE IF message.msgType = MSG_HAVE
       THEN IF s.amountRead + 9 > Len(s.receivedData)
            THEN Thrown(x)
            ELSE MessageLoop(Passed(x, message, HaveAdvance(message),
                   [s EXCEPT !.bitfield =
                      BitfieldSet(@, ReadUInt32BE(s.receivedData, s.amountRead + 5))]))
       ELSE IF message.msgType = MSG_PIECE
       THEN IF ~awaitingPiece(s)
            THEN IF UnexpectedPieceAdvance(message) = 0
                 THEN \* the cursor does not move: the loop never ends
                      [x EXCEPT !.s.hung = TRUE]
                 ELSE MessageLoop(Passed(x, message,
                                         UnexpectedPieceAdvance(message), s))
            ELSE IF message.msgLength < 9
                 THEN Thrown(x)
                 ELSE LET r == readPiece(s, message)
                          p == Passed(x, message, FrameAdvance(message), r)
                      IN IF CurrentPiece(r).downloaded = CurrentPiece(r).work.size
                         THEN [p EXCEPT !.s = finalizeDownload(p.s)]
                         ELSE MessageLoop(p)
       ELSE MessageLoop(Passed(x, message, FrameAdvance(message), s))

\* Mutant: INTERESTED is written before UNCHOKE
readAndProcessMessagesInterestedFirst(x) ==
  LET h == IF x.s.handshakeComplete THEN [s |-> x.s, success |-> TRUE]
           ELSE readHandshake(x.s)
      b == IF h.s.hasBitfield THEN [s |-> h.s, success |-> TRUE]
           ELSE readBitfield(h.s)
  IN IF ~h.success THEN [x EXCEPT !.s = h.s]
     ELSE IF ~b.success THEN [x EXCEPT !.s = b.s]
     ELSE IF ~h.s.hasBitfield
     THEN [x EXCEPT !.s = [connWrite(connWrite(b.s,
                                Sent(MSG_INTERESTED, 0, 0, 0)),
                                Sent(MSG_UNCHOKE, 0, 0, 0))
                           EXCEPT !.readyEmitted = @ + 1, !.pc = "ready"]]
     ELSE MessageLoop([x EXCEPT !.s = b.s])

\* _readAndProcessMessages() from its top, up to the next event it emits
readAndProcessMessages(x) ==
  LET h == IF x.s.handshakeComplete THEN [s |-> x.s, success |-> TRUE]
           ELSE readHandshake(x.s)
      b == IF h.s.hasBitfield THEN [s |-> h.s, success |-> TRUE]
           ELSE readBitfield(h.s)
  IN IF ~h.success THEN [x EXCEPT !.s = h.s]
     ELSE IF ~b.success THEN [x EXCEPT !.s = b.s]
     ELSE IF ~h.s.hasBitfield
     THEN [x EXCEPT !.s = [connWrite(connWrite(b.s,
                                Sent(MSG_UNCHOKE, 0, 0, 0)),
                                Sent(MSG_INTERESTED, 0, 0, 0))
                           EXCEPT !.readyEmitted = @ + 1, !.pc = "ready"]]
     ELSE MessageLoop([x EXCEPT !.s = b.s])

\* The fields the constructor of Peer sets, the socket seen through what was
\* done to it (timeout armed, bytes written, ended, closed), and the events
\* emitted so far
NewSession ==
  [isChoked |-> TRUE, handshakeComplete |-> FALSE, hasBitfield |-> FALSE,
   receivedData |-> << >>, amountRead |-> 0, bitfield |-> << >>,
   currentPiece |-> {}, connected |-> FALSE, timeout |-> 3000,
   sent |-> << >>, ended |-> FALSE, closed |-> FALSE,
   readyEmitted |-> 0, completed |-> << >>, pc |-> "idle",
   crashed |-> FALSE, hung |-> FALSE]

NoOp ==
  [kind |-> "init", peer |-> 0, index |-> Undefined, buff |-> Undefined,
   hashOk |-> FALSE, collectCalled |-> FALSE, wasFilled |-> FALSE,
   requeued |-> FALSE, assigned |-> {}, visits |-> {}, calls |-> {}]

Init ==
  /\ unclaimed = BuildWork(0)
  /\ pending = << >>
  /\ unemployed = << >>
  /\ totalConnected = << >>
  /\ result = [collection |-> [i \in Pieces |-> Undefined],
               piecesCollected |-> 0, curPtr |-> 0]
  /\ fStream = [written |-> << >>, needDrain |-> FALSE, drainListeners |-> 0]
  /\ emitted = [collectionComplete |-> 0, writeComplete |-> 0]
  /\ exited = FALSE
  /\ peers = [p \in Peers |-> [status |-> "connecting", bitfield |-> << >>,
                               currentPiece |-> {}, ended |-> FALSE]]
  /\ lastOp = NoOp
  /\ session = NewSession
  /\ wire = << >>
  /\ remote = [handshake |-> "none", frames |-> << >>, sentBytes |-> 0]
  /\ lastRun = [base |-> 0, steps |-> << >>]

\* addPeers constructs every session alike, so the sessions still connecting
\* are interchangeable: the one that leaves that stage next is taken to be the
\* lowest-numbered of them
FirstConnecting(p) ==
  \A o \in Peers : o < p => peers[o].status # "connecting"

\* The peer emits 'ready' (handshake done, bitfield received): the listener of
\* addPeers pushes it to totalConnected and to unemployed
PeerReady(p, bf) ==
  /\ ~exited
  /\ peers[p].status = "connecting"
  /\ FirstConnecting(p)
  /\ LET ps0 == [peers EXCEPT ![p].status = "ready", ![p].bitfield = bf]
         q0 == [unclaimed |-> unclaimed, pending |-> pending,
                unemployed |-> unemployed, peers |-> ps0, assigned |-> {},
                visits |-> {}, calls |-> {}]
         q1 == UnemployedPush(q0, result, p)
     IN /\ totalConnected' = QueuePush(totalConnected, p)
        /\ unclaimed' = q1.unclaimed
        /\ pending' = q1.pending
        /\ unemployed' = q1.unemployed
        /\ peers' = q1.peers
        /\ lastOp' = [NoOp EXCEPT !.kind = "ready", !.peer = p,
                                  !.assigned = q1.assigned,
                                  !.visits = q1.visits,
                                  !.calls = q1.calls]
  /\ UNCHANGED << result, fStream, emitted, exited >>
  /\ UNCHANGED peerVars

\* A HAVE message of a ready peer: the bit is set in its bitfield
PeerHave(p, index) ==
  /\ ~exited
  /\ peers[p].status = "ready"
  /\ BitfieldSet(peers[p].bitfield, index) # peers[p].bitfield
  /\ peers' = [peers EXCEPT ![p].bitfield = BitfieldSet(@, index)]
  /\ lastOp' = [NoOp EXCEPT !.kind = "have", !.peer = p, !.index = index]
  /\ UNCHANGED << unclaimed, pending, unemployed, totalConnected, result,
                  fStream, emitted, exited >>
  /\ UNCHANGED peerVars

\* Mutant: a session goes on emitting after its socket has closed
EmittingAfterClose(p) == peers[p].status # "connecting"

\* A session whose events the manager listens to and which can still emit
\* them: the listeners of 'download complete' and 'close' are registered by
\* the 'ready' listener, and a closed socket delivers no more data
Emitting(p) == peers[p].status = "ready"

\* The peer emits 'download complete' (its _finalizeDownload has cleared
\* currentPiece): the listener of addPeers checks the digest, collects or
\* requeues, removes the pending entry and pushes the peer to unemployed.
\* k and ok are the run of write() the collect call may start.
DownloadComplete(p, buff, k, ok) ==
  /\ ~exited
  /\ Emitting(p)
  /\ peers[p].currentPiece # {}
  /\ LET work == CHOOSE w \in peers[p].currentPiece : TRUE
         index == work.index
         ps0 == [peers EXCEPT ![p].currentPiece = {}]
         hashOk == HashMatches(buff, index)
         requeue == ~hashOk /\ RequeueOnMismatch(result, pending, work)
         completes == hashOk /\ CollectCompletes(result, index)
         cw0 == [result |-> result, fStream |-> fStream, emitted |-> emitted]
         cw1 == IF hashOk THEN Collect(cw0, index, buff, k, ok) ELSE cw0
         ps1 == IF completes THEN DisconnectAll(ps0, totalConnected, 1) ELSE ps0
         uncl1 == IF requeue THEN QueuePush(unclaimed, work) ELSE unclaimed
         exits == cw1.emitted.writeComplete # emitted.writeComplete
         q0 == [unclaimed |-> uncl1, pending |-> pending,
                unemployed |-> unemployed, peers |-> ps1, assigned |-> {},
                visits |-> {}, calls |-> {}]
         q1 == ReleaseWorker(q0, cw1.result, p)
         op == [NoOp EXCEPT !.kind = "complete", !.peer = p, !.index = index,
                            !.buff = IF hashOk THEN buff ELSE Undefined,
                            !.hashOk = hashOk,
                            !.collectCalled = hashOk,
                            !.wasFilled = contains(result, index),
                            !.requeued = requeue]
     IN /\ IF completes THEN WriteRunPossible(cw0.result, k, ok)
                        ELSE k = 1 /\ ok
        /\ result' = cw1.result
        /\ fStream' = cw1.fStream
        /\ emitted' = cw1.emitted
        /\ IF exits
           THEN \* process.exit inside collect: the rest of the listener never runs
                /\ exited' = TRUE
                /\ unclaimed' = uncl1
                /\ peers' = ps1
                /\ lastOp' = op
                /\ UNCHANGED << pending, unemployed >>
           ELSE /\ unclaimed' = q1.unclaimed
                /\ pending' = q1.pending
                /\ unemployed' = q1.unemployed
                /\ peers' = q1.peers
                /\ lastOp' = [op EXCEPT !.assigned = q1.assigned,
                                        !.visits = q1.visits,
                                  !.calls = q1.calls]
                /\ UNCHANGED exited
  /\ UNCHANGED totalConnected
  /\ UNCHANGED peerVars

\* The socket of a peer closes. Before 'ready' nobody listens; after it the
\* 'close' listener of addPeers cleans up
PeerClose(p) ==
  /\ ~exited
  /\ peers[p].status \in { "connecting", "ready" }
  /\ peers[p].status = "connecting" => FirstConnecting(p)
  /\ peers' = [peers EXCEPT ![p].status = "closed"]
  /\ IF peers[p].status = "connecting"
     THEN /\ lastOp' = [NoOp EXCEPT !.kind = "close", !.peer = p]
          /\ UNCHANGED << unclaimed, pending, totalConnected >>
     ELSE /\ totalConnected' = QueueRemove(totalConnected, p)
          /\ IF peers[p].currentPiece = {}
             THEN \* !p.awaitingPiece(): nothing to clean up
                  /\ lastOp' = [NoOp EXCEPT !.kind = "close", !.peer = p]
                  /\ UNCHANGED << unclaimed, pending >>
             ELSE LET work == CHOOSE w \in peers[p].currentPiece : TRUE
                      pq == RemoveWorker(pending, p)
                      requeue == RequeueOnClose(result, pq, work)
                  IN /\ pending' = pq
                     /\ unclaimed' = IF requeue THEN QueuePush(unclaimed, work)
                                     ELSE unclaimed
                     /\ lastOp' = [NoOp EXCEPT !.kind = "close", !.peer = p,
                                               !.index = work.index,
                                               !.requeued = requeue]
  /\ UNCHANGED << unemployed, result, fStream, emitted, exited >>
  /\ UNCHANGED peerVars

\* The output stream emits 'drain': the once-listener registered by write()
\* runs write() again
Drain(k, ok) ==
  /\ ~exited
  /\ fStream.needDrain
  /\ IF fStream.drainListeners = 0
     THEN /\ k = 1 /\ ok
          /\ fStream' = [fStream EXCEPT !.needDrain = FALSE]
          /\ UNCHANGED << result, emitted, exited >>
     ELSE LET cw0 == [result |-> result,
                      fStream |-> [fStream EXCEPT !.needDrain = FALSE,
                                                  !.drainListeners = @ - 1],
                      emitted |-> emitted]
              cw1 == Write(cw0, k, ok)
          IN /\ WriteRunPossible(result, k, ok)
             /\ result' = cw1.result
             /\ fStream' = cw1.fStream
             /\ emitted' = cw1.emitted
             /\ exited' = (cw1.emitted.writeComplete # emitted.writeComplete)
  /\ lastOp' = [NoOp EXCEPT !.kind = "drain"]
  /\ UNCHANGED << unclaimed, pending, unemployed, totalConnected, peers >>
  /\ UNCHANGED peerVars

Next ==
  \/ \E p \in Peers, bf \in BitfieldPayloads : PeerReady(p, bf)
  \/ \E p \in Peers, index \in 0..NPieces : PeerHave(p, index)
  \/ \E p \in Peers, buff \in Buffers, k \in 1..NPieces, ok \in BOOLEAN :
        DownloadComplete(p, buff, k, ok)
  \/ \E p \in Peers : PeerClose(p)
  \/ \E k \in 1..NPieces, ok \in BOOLEAN : Drain(k, ok)

Spec == Init /\ [][Next]_vars

\* ------------------------------------------------- one session on the wire
\* The handshakes a remote peer may answer with: 68 bytes, of which the
\* session looks at the protocol string and the infohash
RemoteHandshake(kind) ==
  << 19 >> \o (IF kind = "bad protocol" THEN [i \in 1..19 |-> 88]
               ELSE ProtocolString)
           \o [i \in 1..8 |-> 0]
           \o (IF kind = "bad infohash" THEN [i \in 1..20 |-> 205] ELSE InfoHash)
           \o [i \in 1..20 |-> 1]

HandshakeKinds == { "valid", "bad infohash", "bad protocol" }

\* MSG_PIECE as the remote peer frames it: index, offset, data
PieceFrame(index, offset, data) ==
  serialize(MSG_PIECE, UInt32BE(index) \o UInt32BE(offset) \o data)

\* The frames a remote peer may send
FrameMenu ==
  { [kind |-> "keep-alive", bytes |-> << 0, 0, 0, 0 >>],
    [kind |-> "choke", bytes |-> serialize(MSG_CHOKE, << >>)],
    [kind |-> "unchoke", bytes |-> serialize(MSG_UNCHOKE, << >>)],
    [kind |-> "interested", bytes |-> serialize(MSG_INTERESTED, << >>)],
    [kind |-> "have", bytes |-> serialize(MSG_HAVE, UInt32BE(1))],
    [kind |-> "bitfield", bytes |-> serialize(MSG_BITFIELD, << 192 >>)],
    [kind |-> "bitfield", bytes |-> serialize(MSG_BITFIELD, << 128 >>)],
    [kind |-> "piece", bytes |-> PieceFrame(0, 0, << 7, 7 >>)],
    [kind |-> "piece", bytes |-> PieceFrame(0, 0, << 7 >>)],
    [kind |-> "piece", bytes |-> PieceFrame(1, 0, << 9 >>)],
    [kind |-> "oversize", bytes |-> UInt32BE(2 * MAX_REQUEST_SIZE + 1) \o << 2 >>],
    [kind |-> "oversize", bytes |-> UInt32BE(MSG_BITFIELD * 16777216) \o << 2 >>],
    [kind |-> "unknown", bytes |-> << 0, 0, 0, 1, 9 >>] }

\* The socket connects: the 'connect' listener sends the handshake and arms
\* the 10 s timeout
Connect ==
  /\ ~session.connected /\ ~session.closed
  /\ session' = [connWrite([session EXCEPT !.connected = TRUE],
                           createHandshakeRequest)
                 EXCEPT !.timeout = 10000]
  /\ UNCHANGED << wire, remote, lastRun >>
  /\ UNCHANGED coordVars

Running == /\ session.connected /\ ~session.closed
           /\ ~session.crashed /\ ~session.hung

\* The remote peer answers the handshake
RemoteSendHandshake(kind) ==
  /\ Running
  /\ remote.handshake = "none"
  /\ wire' = wire \o RemoteHandshake(kind)
  /\ remote' = [remote EXCEPT !.handshake = kind,
                              !.sentBytes = @ + Len(RemoteHandshake(kind))]
  /\ UNCHANGED << session, lastRun >>
  /\ UNCHANGED coordVars

FramesInFlight ==
  Cardinality({ i \in 1..Len(remote.frames) :
                 remote.frames[i].start + remote.frames[i].len
                    > remote.sentBytes - Len(wire) })

\* The remote peer sends one more frame
RemoteSend(f) ==
  /\ Running
  /\ remote.handshake # "none"
  /\ Len(remote.frames) < MaxFrames
  /\ FramesInFlight < MaxFramesInFlight
  /\ wire' = wire \o f.bytes
  /\ remote' = [remote EXCEPT
                  !.frames = Append(@, [start |-> remote.sentBytes,
                                        len |-> Len(f.bytes),
                                        kind |-> f.kind]),
                  !.sentBytes = @ + Len(f.bytes)]
  /\ UNCHANGED << session, lastRun >>
  /\ UNCHANGED coordVars

\* The sizes of the next 'data' event: everything that is on the wire, or a
\* short chunk of it
ChunkSizes == { n \in 1..Len(wire) : n = Len(wire) \/ n <= MaxChunk }

\* A 'data' event with the next n bytes: they are appended to receivedData
\* and _readAndProcessMessages runs up to the first event it emits
Receive(n) ==
  /\ Running
  /\ session.pc = "idle"
  /\ n \in ChunkSizes
  /\ LET s0 == [session EXCEPT !.receivedData = @ \o SubSeq(wire, 1, n)]
         x == readAndProcessMessages(
                [s |-> s0, base |-> lastRun.base, steps |-> << >>])
     IN /\ session' = x.s
        /\ lastRun' = [base |-> x.base, steps |-> x.steps]
  /\ wire' = SubSeq(wire, n + 1, Len(wire))
  /\ UNCHANGED remote
  /\ UNCHANGED coordVars

\* What the listeners of 'ready' and of 'download complete' may do with the
\* session before they return: nothing, disconnect() it, or assignWork() a
\* piece its bitfield has
Responses ==
  { [do |-> "nothing", index |-> 0], [do |-> "disconnect", index |-> 0] }
    \cup { [do |-> "assign", index |-> i] : i \in Pieces }

\* The listeners of the emitted event return and _readAndProcessMessages goes
\* on with its loop. An assignWork() made by a listener runs the same loop
\* from inside the emit; what it leaves is what the loop goes on from.
ListenersReturn(r) ==
  /\ Running
  /\ session.pc # "idle"
  /\ r.do = "assign" => hasPiece(session.bitfield, r.index)
  /\ LET s0 == [session EXCEPT !.pc = "idle"]
         s1 == IF r.do = "disconnect" THEN connEnd(s0)
               ELSE IF r.do = "assign"
               THEN [s0 EXCEPT !.currentPiece = { NewCurrentPiece(Work(r.index)) }]
               ELSE s0
         x == MessageLoop([s |-> s1, base |-> lastRun.base,
                           steps |-> lastRun.steps])
     IN /\ session' = x.s
        /\ lastRun' = [base |-> x.base, steps |-> x.steps]
  /\ UNCHANGED << wire, remote >>
  /\ UNCHANGED coordVars

\* The manager disconnects the session when the collection completes
Disconnect ==
  /\ Running
  /\ session.pc = "idle"
  /\ session.readyEmitted > 0
  /\ ~session.ended
  /\ session' = connEnd(session)
  /\ UNCHANGED << wire, remote, lastRun >>
  /\ UNCHANGED coordVars

\* The socket was idle for as long as the armed timeout: the 'timeout'
\* listener ends the connection
SocketTimeout ==
  /\ Running
  /\ session.pc = "idle"
  /\ session.timeout > 0
  /\ ~session.ended
  /\ session' = connEnd(session)
  /\ UNCHANGED << wire, remote, lastRun >>
  /\ UNCHANGED coordVars

\* The socket closes: 'close' is emitted and no data follows
SocketClose ==
  /\ ~session.closed /\ ~session.crashed /\ ~session.hung
  /\ session.pc = "idle"
  /\ session' = [session EXCEPT !.closed = TRUE]
  /\ UNCHANGED << wire, remote, lastRun >>
  /\ UNCHANGED coordVars

NextPeer ==
  \/ Connect
  \/ \E kind \in HandshakeKinds : RemoteSendHandshake(kind)
  \/ \E f \in FrameMenu : RemoteSend(f)
  \/ \E n \in 1..Len(wire) : Receive(n)
  \/ \E r \in Responses : ListenersReturn(r)
  \/ Disconnect
  \/ SocketTimeout
  \/ SocketClose

SpecPeer == Init /\ [][NextPeer]_vars

\* ------------------------------------------ the work list of a descriptor
\* Mutant: every piece is given the full piece length
WorkEntryUnclamped(pieceSize, length, i) == [index |-> i, size |-> pieceSize]

\* One pass of the constructor's for loop: begin, end clamped to the length
\* of the download, {index, size}
WorkEntry(pieceSize, length, i) ==
  LET begin == i * pieceSize
      end == IF begin + pieceSize > length THEN length ELSE begin + pieceSize
  IN [index |-> i, size |-> end - begin]

\* The descriptors of a download: piece length, number of piece hashes, and a
\* total length whose last piece is neither empty nor longer than a piece
Descriptors ==
  { d \in [kind : { "constructor" }, pieceSize : 1..MaxPieceSize,
           numPieces : 1..MaxHashes, length : 1..(MaxPieceSize * MaxHashes)] :
      /\ d.length > d.pieceSize * (d.numPieces - 1)
      /\ d.length <= d.pieceSize * d.numPieces }

\* The constructor about to build the work list of a descriptor: lastOp holds
\* the descriptor, unclaimed the list built so far
InitWork ==
  /\ lastOp \in Descriptors
  /\ unclaimed = << >>
  /\ pending = << >>
  /\ unemployed = << >>
  /\ totalConnected = << >>
  /\ result = [collection |-> [i \in Pieces |-> Undefined],
               piecesCollected |-> 0, curPtr |-> 0]
  /\ fStream = [written |-> << >>, needDrain |-> FALSE, drainListeners |-> 0]
  /\ emitted = [collectionComplete |-> 0, writeComplete |-> 0]
  /\ exited = FALSE
  /\ peers = [p \in Peers |-> [status |-> "connecting", bitfield |-> << >>,
                               currentPiece |-> {}, ended |-> FALSE]]
  /\ session = NewSession
  /\ wire = << >>
  /\ remote = [handshake |-> "none", frames |-> << >>, sentBytes |-> 0]
  /\ lastRun = [base |-> 0, steps |-> << >>]

\* work.push({index: i, size: end - begin}) for the next i
WorkPush ==
  /\ Len(unclaimed) < lastOp.numPieces
  /\ unclaimed' = Append(unclaimed,
                         WorkEntry(lastOp.pieceSize, lastOp.length, Len(unclaimed)))
  /\ UNCHANGED << pending, unemployed, totalConnected, result, fStream,
                  emitted, exited, peers, lastOp >>
  /\ UNCHANGED peerVars

NextWork == WorkPush

SpecWork == InitWork /\ [][NextWork]_vars

\* ------------------------------------- one assignment and its requests
\* The sizes of the assigned piece: one byte, one block, one block and a
\* remainder, two blocks, and more blocks than the backlog holds
RequestSizes ==
  { 1, MAX_REQUEST_SIZE, MAX_REQUEST_SIZE + 1, 2 * MAX_REQUEST_SIZE,
    2 * MAX_REQUEST_SIZE + 1, MAX_BACKLOG * MAX_REQUEST_SIZE + 1,
    (MAX_BACKLOG + 1) * MAX_REQUEST_SIZE }

\* A session that has emitted 'ready' and on which assignWork(piece) has just
\* returned: currentPiece is fresh and the request pump has run. The bytes of
\* the piece are left out of this specification: buff stays empty and a block
\* is seen by its length.
AssignedSession(piece, choked) ==
  RequestPump(
    [NewSession EXCEPT !.connected = TRUE, !.timeout = 0,
                       !.handshakeComplete = TRUE, !.hasBitfield = TRUE,
                       !.bitfield = << 192 >>, !.isChoked = choked,
                       !.sent = << createHandshakeRequest,
                                   Sent(MSG_UNCHOKE, 0, 0, 0),
                                   Sent(MSG_INTERESTED, 0, 0, 0) >>,
                       !.readyEmitted = 1,
                       !.currentPiece =
                          { [NewCurrentPiece(piece) EXCEPT !.buff = << >>] }])

InitRequests ==
  /\ unclaimed = BuildWork(0)
  /\ pending = << >>
  /\ unemployed = << >>
  /\ totalConnected = << >>
  /\ result = [collection |-> [i \in Pieces |-> Undefined],
               piecesCollected |-> 0, curPtr |-> 0]
  /\ fStream = [written |-> << >>, needDrain |-> FALSE, drainListeners |-> 0]
  /\ emitted = [collectionComplete |-> 0, writeComplete |-> 0]
  /\ exited = FALSE
  /\ peers = [p \in Peers |-> [status |-> "connecting", bitfield |-> << >>,
                               currentPiece |-> {}, ended |-> FALSE]]
  /\ lastOp = NoOp
  /\ \E index \in Pieces, size \in RequestSizes, choked \in BOOLEAN :
       session = AssignedSession([index |-> index, size |-> size], choked)
  /\ wire = << >>
  /\ remote = [handshake |-> "valid", frames |-> << >>, sentBytes |-> 0]
  /\ lastRun = [base |-> 0, steps |-> << >>]

\* A 'data' event that carries exactly one whole frame. The stream offsets
\* of the history are not kept here: every run is logged from offset 0.
FrameArrives(bytes) ==
  /\ session.pc = "idle"
  /\ session.currentPiece # {}
  /\ LET s0 == [session EXCEPT !.receivedData = @ \o bytes]
         x == readAndProcessMessages(
                [s |-> s0, base |-> 0, steps |-> << >>])
     IN /\ session' = x.s
        /\ lastRun' = [base |-> 0, steps |-> x.steps]
  /\ UNCHANGED << wire, remote >>
  /\ UNCHANGED coordVars

\* The remote peer unchokes the session
PeerUnchokes ==
  /\ session.isChoked
  /\ FrameArrives(serialize(MSG_UNCHOKE, << >>))

\* The remote peer chokes the session
PeerChokes ==
  /\ ~session.isChoked
  /\ FrameArrives(serialize(MSG_CHOKE, << >>))

\* The remote peer answers the oldest request that it has not yet answered,
\* in one 'data' event: the MSG_PIECE case of the loop counts the block, the
\* download is finalized when it was the last one, else the pump runs
PeerSendsBlock ==
  /\ session.pc = "idle"
  /\ session.currentPiece # {}
  /\ CurrentPiece(session).backlog > 0
  /\ LET cp == CurrentPiece(session)
         amount == Min(MAX_REQUEST_SIZE, cp.work.size - cp.downloaded)
         r == [session EXCEPT !.currentPiece = { BlockRead(cp, amount) }]
     IN session' = IF CurrentPiece(r).downloaded = CurrentPiece(r).work.size
                   THEN finalizeDownload(r)
                   ELSE RequestPump(r)
  /\ UNCHANGED << wire, remote, lastRun >>
  /\ UNCHANGED coordVars

NextRequests ==
  \/ PeerUnchokes
  \/ PeerChokes
  \/ PeerSendsBlock

SpecRequests == InitRequests /\ [][NextRequests]_vars

\* ------------------------------------------------- an EventQueue by itself
\* The objects a queue may hold
QueueItems == 1..NumItems

\* The arrays of at most MaxQueueLen objects
QueueArrays ==
  UNION { [1..n -> QueueItems] : n \in 0..MaxQueueLen }

\* new EventQueue(arr): the queue is totalConnected, of any content
InitQueue ==
  /\ totalConnected \in QueueArrays
  /\ lastOp = NoOp
  /\ unclaimed = << >>
  /\ pending = << >>
  /\ unemployed = << >>
  /\ result = [collection |-> [i \in Pieces |-> Undefined],
               piecesCollected |-> 0, curPtr |-> 0]
  /\ fStream = [written |-> << >>, needDrain |-> FALSE, drainListeners |-> 0]
  /\ emitted = [collectionComplete |-> 0, writeComplete |-> 0]
  /\ exited = FALSE
  /\ peers = [p \in Peers |-> [status |-> "connecting", bitfield |-> << >>,
                               currentPiece |-> {}, ended |-> FALSE]]
  /\ session = NewSession
  /\ wire = << >>
  /\ remote = [handshake |-> "none", frames |-> << >>, sentBytes |-> 0]
  /\ lastRun = [base |-> 0, steps |-> << >>]

\* push(obj)
PushOp(obj) ==
  /\ Len(totalConnected) < MaxQueueLen
  /\ totalConnected' = QueuePush(totalConnected, obj)
  /\ lastOp' = [NoOp EXCEPT !.kind = "push", !.peer = obj]
  /\ UNCHANGED << unclaimed, pending, unemployed, result, fStream, emitted,
                  exited, peers >>
  /\ UNCHANGED peerVars

\* pop()
PopOp ==
  /\ Len(totalConnected) > 0
  /\ totalConnected' = QueueAfterPop(totalConnected)
  /\ lastOp' = [NoOp EXCEPT !.kind = "pop", !.peer = QueuePopped(totalConnected)]
  /\ UNCHANGED << unclaimed, pending, unemployed, result, fStream, emitted,
                  exited, peers >>
  /\ UNCHANGED peerVars

\* remove(obj)
RemoveOp(obj) ==
  /\ totalConnected' = QueueRemove(totalConnected, obj)
  /\ lastOp' = [NoOp EXCEPT !.kind = "remove", !.peer = obj]
  /\ UNCHANGED << unclaimed, pending, unemployed, result, fStream, emitted,
                  exited, peers >>
  /\ UNCHANGED peerVars

NextQueue ==
  \/ \E obj \in QueueItems : PushOp(obj)
  \/ PopOp
  \/ \E obj \in QueueItems : RemoveOp(obj)

SpecQueue == InitQueue /\ [][NextQueue]_vars

\* ================================================================ claims
InUnclaimed(i) == \E j \in 1..Len(unclaimed) : unclaimed[j].index = i
InPending(i) == \E j \in 1..Len(pending) : pending[j].work.index = i
InCollector(i) == contains(result, i)
B2N(b) == IF b THEN 1 ELSE 0

\* C1: at every handler boundary, the number of unclaimed pieces, plus the
\* number of distinct piece indices in pending that are not in the collector,
\* plus the number of collected pieces, is the number of pieces.
C1_PieceConservation ==
  Len(unclaimed)
    + Cardinality({ i \in Pieces : InPending(i) /\ ~InCollector(i) })
    + result.piecesCollected = NPieces

\* C1 witness: a mismatching piece was requeued while another piece was
\* already collected.
C1_Witness ==
  /\ lastOp.kind = "complete" /\ ~lastOp.hashOk /\ lastOp.requeued
  /\ result.piecesCollected >= 1

\* C2 as stated: every piece index is in exactly one of unclaimed, pending,
\* the collector.
C2_ExactlyOnePlace ==
  \A i \in Pieces :
    B2N(InUnclaimed(i)) + B2N(InPending(i)) + B2N(InCollector(i)) = 1

\* C2 amended: every piece index is in at least one of the three places; it
\* is in unclaimed exactly once and then nowhere else, or else it is in
\* pending, in the collector, or in both (a redundant worker may still hold a
\* piece that another worker has already delivered).
C2_PlacesAmended ==
  \A i \in Pieces :
    /\ InUnclaimed(i) \/ InPending(i) \/ InCollector(i)
    /\ InUnclaimed(i) => ~InPending(i) /\ ~InCollector(i)
    /\ Cardinality({ j \in 1..Len(unclaimed) : unclaimed[j].index = i }) <= 1

\* C2 witness: a piece is in the collector while a redundant worker still has
\* it in pending.
C2_Witness == \E i \in Pieces : InPending(i) /\ InCollector(i)

\* C3: a slot of the collector changes only in a 'download complete' handler
\* for that very piece, to the buffer delivered there, whose digest is the
\* piece's; and collect is never called with a buffer whose digest differs.
C3_OnlyValidatedBuffers ==
  [][ /\ \A i \in Pieces :
           result'.collection[i] # result.collection[i] =>
             /\ lastOp'.kind = "complete"
             /\ lastOp'.index = i
             /\ lastOp'.buff = result'.collection[i]
             /\ sha1(result'.collection[i]) = pieceHashes[i]
      /\ lastOp'.collectCalled =>
           sha1(lastOp'.buff) = pieceHashes[lastOp'.index] ]_vars

\* C3 witness: a redundant worker delivered a mismatching buffer for a piece
\* that is already collected.
C3_Witness ==
  /\ lastOp.kind = "complete" /\ ~lastOp.hashOk /\ lastOp.wasFilled
  /\ \E i \in Pieces : InCollector(i)

\* C4: what the stream was handed is slots 0, 1, 2, ... in this order, each
\* with the collected buffer of its slot, never more than n_pieces of them,
\* and all of them once 'write complete' is emitted.
C4_WrittenInIndexOrder ==
  /\ Len(fStream.written) <= NPieces
  /\ \A j \in 1..Len(fStream.written) :
        /\ fStream.written[j].slot = j - 1
        /\ fStream.written[j].data = result.collection[j - 1]
  /\ emitted.writeComplete > 0 => Len(fStream.written) = NPieces

\* C4 witness: the write was paused by backpressure, resumed by 'drain', and
\* finished.
C4_Witness == lastOp.kind = "drain" /\ emitted.writeComplete = 1

\* C5: a collect call on a filled slot changes nothing in the collector: the
\* slots, the count, the write cursor, the stream and the emitted events.
C5_DoubleCollectIgnored ==
  [][ (lastOp'.kind = "complete" /\ lastOp'.collectCalled /\ lastOp'.wasFilled)
        => (result' = result /\ fStream' = fStream /\ emitted' = emitted) ]_vars

\* C5 witness: collect was called for a slot that was already filled.
C5_Witness ==
  lastOp.kind = "complete" /\ lastOp.collectCalled /\ lastOp.wasFilled

\* C6: no peer is in unemployed and in a pending entry at the same time.
C6_IdleAndPendingDisjoint ==
  \A i \in 1..Len(unemployed), j \in 1..Len(pending) :
    unemployed[i] # pending[j].peer

\* C6 witness: after completion a peer sits in unemployed while another is
\* still in pending.
C6_Witness == Len(unemployed) > 0 /\ Len(pending) > 0

\* C7: every entry the assignment pass pushed into pending, from unclaimed or
\* as a redundant copy, was for a piece whose bit was set in the peer's
\* bitfield at that moment.
C7_AssignedPieceInBitfield == \A a \in lastOp.assigned : a.had

\* C7 witness: the assignment pass made a redundant assignment.
C7_Witness == \E a \in lastOp.assigned : a.redundant

\* The pending entries of a peer
EntriesOf(pq, p) == { j \in 1..Len(pq) : pq[j].peer = p }

\* The pending entries for a piece that other peers than p hold
OtherWorkers(pq, p, index) ==
  { j \in 1..Len(pq) : pq[j].work.index = index /\ pq[j].peer # p }

RECURSIVE Without(_, _)
Without(q, p) ==
  IF q = << >> THEN << >>
  ELSE IF q[1] = p THEN Without(Tail(q), p)
  ELSE << q[1] >> \o Without(Tail(q), p)

\* The pending queue without the entries of peer p, the order kept
RECURSIVE WithoutWorker(_, _)
WithoutWorker(pq, p) ==
  IF pq = << >> THEN << >>
  ELSE IF pq[1].peer = p THEN WithoutWorker(Tail(pq), p)
  ELSE << pq[1] >> \o WithoutWorker(Tail(pq), p)

\* C17: when a ready session closes it leaves totalConnected; no pending
\* entry refers to it afterwards; and if it held a pending piece, the piece
\* is pushed to unclaimed exactly when it is neither in the collector nor held
\* by another peer's entry. Nothing else changes in the queues.
C17_CloseHandling ==
  [][ LET p == lastOp'.peer
      IN (lastOp'.kind = "close" /\ peers[p].status = "ready") =>
           /\ totalConnected' = Without(totalConnected, p)
           /\ EntriesOf(pending', p) = {}
           /\ pending' = WithoutWorker(pending, p)
           /\ \A j \in EntriesOf(pending, p) :
                unclaimed' =
                  IF /\ ~contains(result, pending[j].work.index)
                     /\ OtherWorkers(pending, p, pending[j].work.index) = {}
                  THEN Append(unclaimed, pending[j].work)
                  ELSE unclaimed
           /\ EntriesOf(pending, p) = {} => unclaimed' = unclaimed
    ]_vars

\* C17 witness: a ready session closed while another peer held the same
\* piece, so the piece was not put back
C17_Witness ==
  /\ lastOp.kind = "close" /\ lastOp.index # Undefined /\ ~lastOp.requeued
  /\ ~InCollector(lastOp.index)
  /\ Len(totalConnected) > 0

\* The positions of the unclaimed queue, as a visit found it, whose piece the
\* visited peer has
Offered(v) ==
  { j \in 1..Len(v.unclaimed) : hasPiece(v.bitfield, v.unclaimed[j]) }

\* The positions of the pending queue, as a visit found it, whose piece the
\* visited peer has and the collector has not
Shareable(v) ==
  { j \in 1..Len(v.pending) :
       hasPiece(v.bitfield, v.pending[j]) /\ ~InCollector(v.pending[j]) }

\* C18: the assignment pass prefers unclaimed work. When the unclaimed queue
\* holds a piece of the peer's bitfield the peer gets the first such piece,
\* which leaves unclaimed; a redundant assignment is made only when unclaimed
\* holds none, and then for a pending piece that is not in the collector.
C18_UnclaimedPreferred ==
  \A v \in lastOp.visits :
    /\ Offered(v) # {} =>
         LET first == CHOOSE j \in Offered(v) : \A k \in Offered(v) : j <= k
         IN /\ v.outcome = "unclaimed"
            /\ v.index = v.unclaimed[first]
            /\ ~InUnclaimed(v.index)
            /\ Len(unclaimed) = Len(v.unclaimed) - 1
    /\ v.outcome = "redundant" =>
         /\ Offered(v) = {}
         /\ \E j \in Shareable(v) : v.pending[j] = v.index
         /\ Len(unclaimed) = Len(v.unclaimed)

\* C18 witness: the peer did not have the first unclaimed piece and was given
\* a later one
C18_Witness ==
  \E v \in lastOp.visits :
    /\ v.outcome = "unclaimed"
    /\ 1 \notin Offered(v)

\* C19: an idle peer the pass finds no work for (no unclaimed piece of its
\* bitfield, no uncollected pending piece of its bitfield; an empty bitfield
\* is one such case) is disconnected: its connection is ended, pending gets
\* no entry for it and no piece is assigned to it.
C19_NoWorkDisconnects ==
  \A v \in lastOp.visits :
    (Offered(v) = {} /\ Shareable(v) = {}) =>
      /\ v.outcome = "disconnect"
      /\ peers[v.peer].ended
      /\ EntriesOf(pending, v.peer) = {}
      /\ peers[v.peer].currentPiece = {}
      /\ \A a \in lastOp.assigned : a.peer # v.peer

\* C19 witness: a peer with an empty bitfield was visited while work was left
\* in unclaimed, and was disconnected
C19_Witness ==
  \E v \in lastOp.visits :
    /\ v.bitfield = << >>
    /\ v.unclaimed # << >>
    /\ peers[v.peer].ended

\* C20: once the collector is complete the assignment pass does nothing: it
\* visits no idle peer, pending gets no new entry and no session is given a
\* piece.
C20_NoAssignmentOnceComplete ==
  [][ isComplete(result') =>
        /\ lastOp'.visits = {}
        /\ lastOp'.assigned = {}
        /\ \A j \in 1..Len(pending') : \E k \in 1..Len(pending) :
             pending'[j] = pending[k]
        /\ Len(pending') <= Len(pending)
        /\ \A p \in Peers : peers'[p].currentPiece \subseteq peers[p].currentPiece
    ]_vars

\* C20 witness: a peer became ready, and so idle, after the collector was
\* complete
C20_Witness ==
  /\ lastOp.kind = "ready"
  /\ isComplete(result)
  /\ ~exited

\* C21: when the collector becomes complete every session of totalConnected
\* is disconnected, the one that delivered the last piece and the ones still
\* working on a redundant copy included; 'collection complete' is emitted
\* exactly once, at that moment.
C21_CompleteDisconnectsAll ==
  /\ [](emitted.collectionComplete = B2N(isComplete(result)))
  /\ [][ emitted'.collectionComplete # emitted.collectionComplete =>
           /\ emitted'.collectionComplete = 1
           /\ lastOp'.kind = "complete"
           /\ \E j \in 1..Len(totalConnected) : totalConnected[j] = lastOp'.peer
           /\ \A j \in 1..Len(totalConnected) : peers'[totalConnected[j]].ended
       ]_vars

\* C21 witness: the collector has just become complete while another session
\* of totalConnected was still working on a piece, and that session is ended
C21_Witness ==
  /\ lastOp.kind = "complete" /\ lastOp.hashOk /\ ~lastOp.wasFilled
  /\ isComplete(result)
  /\ peers[lastOp.peer].ended
  /\ \E j \in 1..Len(totalConnected) :
       /\ totalConnected[j] # lastOp.peer
       /\ peers[totalConnected[j]].currentPiece # {}
       /\ peers[totalConnected[j]].ended

\* The slots handed to the output stream so far, in the order of the writes
WrittenSlots == [j \in 1..Len(fStream.written) |-> fStream.written[j].slot]

\* C22: 'write complete' is emitted at most once, and when it has been emitted
\* every slot 0..NPieces-1 has been handed to the output stream; while a slot
\* is unwritten it has not been emitted. It is emitted with the last slot.
C22_WriteCompleteOnceAfterAll ==
  /\ emitted.writeComplete \in { 0, 1 }
  /\ emitted.writeComplete = 1 <=>
       \A i \in Pieces : \E j \in 1..Len(WrittenSlots) : WrittenSlots[j] = i
  /\ emitted.writeComplete = 1 => exited

\* C22 witness: 'write complete' came from a write resumed by 'drain'
C22_Witness ==
  /\ emitted.writeComplete = 1
  /\ lastOp.kind = "drain"

\* C23: when 'write complete' is emitted no write is waiting for 'drain': the
\* stream has not returned the backpressure signal without a 'drain' since.
C23_NothingUnflushedAtExit ==
  emitted.writeComplete > 0 => ~fStream.needDrain

\* C24: after a write returned the backpressure signal with slots remaining,
\* nothing is written until 'drain', and the write resumed by 'drain' starts
\* at the slot after the last one written.
C24_BackpressureRespected ==
  [][ (fStream.needDrain /\ result.curPtr < NPieces
         /\ fStream'.written # fStream.written) =>
        /\ lastOp'.kind = "drain"
        /\ Len(fStream'.written) > Len(fStream.written)
        /\ SubSeq(fStream'.written, 1, Len(fStream.written)) = fStream.written
        /\ fStream'.written[Len(fStream.written) + 1].slot =
             fStream.written[Len(fStream.written)].slot + 1
    ]_vars

\* C24 witness: a redundant copy was delivered while the collector waited for
\* 'drain' with slots remaining
C24_Witness ==
  /\ fStream.needDrain
  /\ result.curPtr < NPieces
  /\ lastOp.kind = "complete"
  /\ lastOp.wasFilled

C30_ReadyCompleteClosed ==
  [][ LET p == lastOp'.peer
      IN /\ lastOp'.kind = "ready" =>
              peers[p].status = "connecting" /\ peers'[p].status = "ready"
         /\ lastOp'.kind = "complete" =>
              peers[p].status = "ready" /\ peers'[p].status = "ready"
         /\ lastOp'.kind = "close" =>
              peers[p].status # "closed" /\ peers'[p].status = "closed"
         /\ \A q \in Peers :
              /\ peers[q].status = "closed" =>
                   /\ peers'[q].status = "closed"
                   /\ ~(lastOp'.kind \in { "ready", "complete", "close" }
                        /\ lastOp'.peer = q)
              /\ peers[q].status = "ready" => peers'[q].status # "connecting"
              /\ peers'[q].status # peers[q].status =>
                   (lastOp'.peer = q /\ lastOp'.kind \in { "ready", "close" })
    ]_vars

\* C30 witness: a peer became ready, delivered a piece that was collected and
\* then closed, the other peer never having become ready
C30_Witness ==
  /\ lastOp.kind = "close"
  /\ peers[lastOp.peer].status = "closed"
  /\ result.piecesCollected > 0
  /\ \A q \in Peers : q # lastOp.peer => peers[q].status = "connecting"

\* C31: at every handler boundary no piece index is twice in unclaimed, and
\* no piece index of unclaimed is in a pending entry.
C31_UnclaimedDistinctFromPending ==
  /\ \A j, k \in 1..Len(unclaimed) :
       unclaimed[j].index = unclaimed[k].index => j = k
  /\ \A j \in 1..Len(unclaimed) : \A k \in 1..Len(pending) :
       unclaimed[j].index # pending[k].work.index

\* C31 witness: a piece was put back into unclaimed by the close of its
\* worker while the other piece was in a pending entry
C31_Witness ==
  /\ lastOp.kind = "close" /\ lastOp.requeued
  /\ InUnclaimed(lastOp.index)
  /\ pending # << >>

\* C32: a peer is in at most one pending entry; a piece may be in several,
\* each with another peer.
C32_OneEntryPerPeer ==
  \A j, k \in 1..Len(pending) : pending[j].peer = pending[k].peer => j = k

\* C32 witness: the same piece is in two pending entries
C32_Witness ==
  \E j, k \in 1..Len(pending) :
    /\ j # k
    /\ pending[j].work.index = pending[k].work.index
    /\ pending[j].peer # pending[k].peer

\* The filled slots of the collector
Filled(c) == { i \in Pieces : c.collection[i] # Undefined }

\* C33: the collected count is the number of filled slots and never
\* decreases, a filled slot stays filled, and the write cursor is at most
\* NPieces and never moves back.
C33_CollectorCounters ==
  /\ [](/\ result.piecesCollected = Cardinality(Filled(result))
        /\ result.curPtr \in 0..NPieces)
  /\ [][ /\ result'.piecesCollected >= result.piecesCollected
         /\ Filled(result) \subseteq Filled(result')
         /\ result'.curPtr >= result.curPtr ]_vars

\* C33 witness: a piece was delivered for a slot that was already filled,
\* after a write that left slots for the next 'drain'
C33_Witness ==
  /\ lastOp.kind = "complete" /\ lastOp.hashOk /\ lastOp.wasFilled
  /\ result.curPtr \in 1..(NPieces - 1)

\* ------------------------------------------------- claims on the session
\* Bytes of the remote peer's stream the session has received in 'data' events
Delivered == remote.sentBytes - Len(wire)

\* The read cursor, counted from the first byte the remote peer sent
Cursor == lastRun.base + session.amountRead

\* The frame of the remote peer that starts at stream offset at, if any
FrameAt(at) == { remote.frames[i] : i \in { j \in 1..Len(remote.frames) :
                                              remote.frames[j].start = at } }

StepsOfRun == { lastRun.steps[j] : j \in 1..Len(lastRun.steps) }

\* C8: a keep-alive (length prefix zero) between two frames is skipped by
\* consuming exactly its 4 bytes and changes no session state, the choked
\* flag included, so that the frame after it is parsed from its first byte
C8_KeepAliveSkipped ==
  \A st \in StepsOfRun :
    (\E f \in FrameAt(st.at) : f.kind = "keep-alive")
      => /\ st.advance = 4
         /\ st.chokedAfter = st.chokedBefore

\* C9: a PIECE frame that arrives while the session has no outstanding
\* assignment is discarded whole: the cursor moves by 4 + length, to the
\* length prefix of the frame after it
C9_UnexpectedPieceDiscarded ==
  \A st \in StepsOfRun :
    (/\ ~st.awaiting
     /\ \E f \in FrameAt(st.at) : f.kind = "piece")
      => st.advance = 4 + st.msgLength

\* The frames of which the remote peer has sent more bytes than have arrived
SplitFrames ==
  { remote.frames[i] : i \in { j \in 1..Len(remote.frames) :
       remote.frames[j].start + remote.frames[j].len > Delivered } }

\* C10: a frame split across socket reads has no effect before its last byte
\* arrives: while a frame is not whole the cursor does not pass its first
\* byte (nothing of it is consumed), and no pass of the loop reads a 5-byte
\* header that reaches into it (nothing of it is interpreted)
C10_SplitFrameUntouched ==
  \A f \in SplitFrames :
    /\ Cursor <= f.start
    /\ \A st \in StepsOfRun : st.at + 5 <= f.start

\* The frames with an oversized length prefix that the session stands on: the
\* handshake is done, the cursor is on the prefix, and the 5 bytes of the
\* header have arrived
OversizeAtCursor ==
  { f \in FrameAt(Cursor) : /\ f.kind = "oversize"
                            /\ f.start + 5 <= Delivered
                            /\ session.handshakeComplete }

\* C11: a frame whose length prefix exceeds 2 x MAX_REQUEST_SIZE, received at
\* any point after the handshake (the first frame included), terminates the
\* session: once the handler that met its header has returned the socket is
\* ended, and no pass of the loop has handled the frame as a message
C11_OversizeTerminates ==
  (session.pc = "idle" /\ ~session.closed)
    => \A f \in OversizeAtCursor :
         /\ session.ended
         /\ \A st \in StepsOfRun : st.at # f.start

\* C12: a session with an assignment has between 0 and MAX_BACKLOG requests
\* outstanding, whatever frames the peer sends, PIECE frames that answer no
\* request included
C12_BacklogBounds ==
  session.currentPiece # {}
    => /\ 0 <= CurrentPiece(session).backlog
       /\ CurrentPiece(session).backlog <= MAX_BACKLOG

\* C13: a session with an assignment has downloaded <= requested <= work.size,
\* whatever PIECE frames the peer sends, duplicated and unrequested blocks
\* included
C13_DownloadedWithinRequested ==
  session.currentPiece # {}
    => /\ CurrentPiece(session).downloaded <= CurrentPiece(session).requested
       /\ CurrentPiece(session).requested <= CurrentPiece(session).work.size

\* The REQUEST messages among what the session has written to the socket
Requests(s) == { i \in 1..Len(s.sent) : s.sent[i].type = MSG_REQUEST }

\* The passes of a run that handled a CHOKE or an UNCHOKE
ChokePasses(steps) ==
  { j \in 1..Len(steps) : steps[j].msgType \in { MSG_CHOKE, MSG_UNCHOKE } }

\* The choked flag as the last CHOKE/UNCHOKE handled in a run leaves it, or
\* as it was before when the run handled none
ChokedAfter(steps, before) ==
  IF ChokePasses(steps) = {} THEN before
  ELSE LET last == CHOOSE j \in ChokePasses(steps) :
                      \A k \in ChokePasses(steps) : k <= j
       IN steps[last].msgType = MSG_CHOKE

\* C14: the session never sends a REQUEST while choked: it starts choked, the
\* choked flag is what the last CHOKE/UNCHOKE it has handled says, and a
\* handler that writes a REQUEST leaves with the flag down
C14_NoRequestWhileChoked ==
  /\ session.isChoked
  /\ [][ /\ session'.isChoked = ChokedAfter(lastRun'.steps, session.isChoked)
         /\ Requests(session') # Requests(session) => ~session'.isChoked ]_vars

\* C14 witness: a REQUEST was written in a run that handled an UNCHOKE
C14_Witness ==
  /\ Requests(session) # {}
  /\ \E j \in ChokePasses(lastRun.steps) :
        lastRun.steps[j].msgType = MSG_UNCHOKE

\* The piece of the one assignment of SpecRequests, also once it is complete
RequestedWork ==
  IF session.currentPiece # {} THEN CurrentPiece(session).work
  ELSE session.completed[Len(session.completed)].work

\* The REQUEST messages written so far, in the order they were written
RECURSIVE RequestsIn(_)
RequestsIn(sent) ==
  IF sent = << >> THEN << >>
  ELSE IF sent[Len(sent)].type = MSG_REQUEST
       THEN Append(RequestsIn(SubSeq(sent, 1, Len(sent) - 1)), sent[Len(sent)])
       ELSE RequestsIn(SubSeq(sent, 1, Len(sent) - 1))

\* C15: the REQUESTs of one assignment are for consecutive ranges from offset
\* 0, each a full block except a shorter last one, never beyond the piece;
\* they add up to what the session counts as requested, and they cover the
\* piece once everything was requested
C15_RequestRanges ==
  LET r == RequestsIn(session.sent)
      work == RequestedWork
  IN /\ \A k \in 1..Len(r) :
          /\ r[k].index = work.index
          /\ r[k].begin = (k - 1) * MAX_REQUEST_SIZE
          /\ r[k].length = Min(MAX_REQUEST_SIZE, work.size - r[k].begin)
          /\ r[k].length > 0
     /\ session.currentPiece # {} =>
          CurrentPiece(session).requested
             = (IF Len(r) = 0 THEN 0 ELSE r[Len(r)].begin + r[Len(r)].length)
     /\ session.currentPiece = {} =>
          Len(r) > 0 /\ r[Len(r)].begin + r[Len(r)].length = work.size

\* C15 witness: a piece of more blocks than the backlog holds was requested to
\* its end, the last request being for the one-byte remainder
C15_Witness ==
  LET r == RequestsIn(session.sent)
  IN /\ Len(r) = MAX_BACKLOG + 1
     /\ r[Len(r)].length = 1
     /\ r[Len(r)].begin + 1 = RequestedWork.size

\* C25: a session that is answered with a handshake of another protocol
\* string or another infohash ends its socket as soon as bytes of it arrive,
\* never completes the handshake, never emits 'ready', processes no frame
\* (the cursor stays at 0 and the loop makes no pass) and writes nothing but
\* its own handshake: no UNCHOKE, INTERESTED or REQUEST.
C25_BadHandshakeFatal ==
  remote.handshake \in { "bad protocol", "bad infohash" } =>
    /\ ~session.handshakeComplete
    /\ session.readyEmitted = 0
    /\ session.pc = "idle"
    /\ session.amountRead = 0
    /\ lastRun.steps = << >>
    /\ session.sent = << createHandshakeRequest >>
    /\ Delivered > 0 => session.ended

\* C25 witness: the whole of a handshake with another infohash has arrived,
\* and a frame after it
C25_Witness ==
  /\ remote.handshake = "bad infohash"
  /\ Len(remote.frames) > 0
  /\ Delivered >= 68 + remote.frames[1].len
  /\ session.ended
  /\ ~session.closed

\* The first frame the remote peer sent after a valid handshake, once the
\* session has had the bytes to look at it: all of the frame, and the 5 bytes
\* of a header
FirstFrameSeen ==
  { f \in FrameAt(68) : /\ remote.handshake = "valid"
                        /\ f.start + f.len <= Delivered
                        /\ f.start + 5 <= Delivered }

\* C26: when the first whole frame after the handshake is not a BITFIELD (a
\* frame of another type, or a keep-alive) the session ends its socket and
\* never emits 'ready'; 'ready' is emitted only after a valid handshake whose
\* first frame is a BITFIELD.
C26_FirstFrameMustBeBitfield ==
  /\ \A f \in FirstFrameSeen :
       f.kind \notin { "bitfield", "oversize" } =>
         /\ session.ended
         /\ session.readyEmitted = 0
  /\ session.readyEmitted > 0 =>
       /\ remote.handshake = "valid"
       /\ \E f \in FrameAt(68) : f.kind = "bitfield"

PieceData(index) == IF index = 0 THEN 7 ELSE 9

\* C28: when downloaded reaches work.size the session emits 'download
\* complete' once for the assignment, with the assignment's work and its
\* buffer, and clears the assignment; the handler sends no REQUEST at the
\* completion, and afterwards only for an assignment made since.
C28_CompletionEmitsOnceNoPump ==
  /\ [](/\ (session.pc = "idle" /\ session.currentPiece # {}) =>
             CurrentPiece(session).downloaded # CurrentPiece(session).work.size
        /\ session.pc = "download complete" => session.currentPiece = {})
  /\ [][ /\ session'.completed # session.completed =>
              LET done == session'.completed[Len(session'.completed)]
              IN /\ session'.completed = Append(session.completed, done)
                 /\ session'.pc = "download complete"
                 /\ session'.currentPiece = {}
                 /\ Requests(session') = Requests(session)
                 /\ session.currentPiece # {} =>
                      done.work = CurrentPiece(session).work
                 /\ done.work = Work(done.work.index)
                 /\ Len(done.buff) = done.work.size
                 /\ done.buff[1] = PieceData(done.work.index)
         /\ (session.pc = "download complete" /\ session'.currentPiece = {}) =>
              Requests(session') = Requests(session)
         /\ session.pc = "download complete" =>
              \A i \in Requests(session') \ Requests(session) :
                /\ session'.currentPiece # {}
                /\ session'.sent[i].index = CurrentPiece(session').work.index
       ]_vars

\* C28 witness: a piece was completed, the session was given another one and
\* has requested it
C28_Witness ==
  /\ Len(session.completed) = 1
  /\ session.currentPiece # {}
  /\ CurrentPiece(session).work # session.completed[1].work
  /\ \E i \in Requests(session) :
       session.sent[i].index = CurrentPiece(session).work.index

\* The stream offsets at which a frame of the remote peer starts or ends
FrameBoundaries ==
  { 68 } \cup { remote.frames[j].start + remote.frames[j].len :
                  j \in 1..Len(remote.frames) }

\* Every pass of the loop moved the cursor by 4 + the length it parsed
C35_AdvanceUniform ==
  \A st \in StepsOfRun : st.advance = 4 + st.msgLength

\* After a valid handshake the cursor is on a frame boundary
C35_OnBoundary ==
  (remote.handshake = "valid" /\ session.handshakeComplete /\ ~session.crashed)
    => Cursor \in FrameBoundaries

\* The cursor is within the buffer
C35_WithinBuffer == session.amountRead <= Len(session.receivedData)

\* Between handlers a buffer that was read to its end has been dropped
C35_ResetWhenConsumed ==
  (session.pc = "idle" /\ session.amountRead = Len(session.receivedData))
    => session.amountRead = 0

\* C35: every frame the session consumes moves the read cursor by 4 + the
\* frame's length, whatever its type and length; so the cursor is always on a
\* frame boundary and within the buffer, and buffer and cursor are reset once
\* all received bytes are consumed.
C35_CursorDiscipline ==
  /\ C35_AdvanceUniform
  /\ C35_OnBoundary
  /\ C35_WithinBuffer
  /\ C35_ResetWhenConsumed

\* The session of a peer as assignWork(piece) leaves it once the peer has
\* unchoked it: the new currentPiece and the requests the pump sends for it
FreshlyAssigned(piece) ==
  RequestPump([NewSession EXCEPT !.connected = TRUE, !.isChoked = FALSE,
                                 !.handshakeComplete = TRUE,
                                 !.hasBitfield = TRUE,
                                 !.currentPiece = { NewCurrentPiece(piece) }])

\* C36: when a session closes mid-piece and no other session works on the
\* piece (nor is it collected), the whole piece goes back to the end of
\* unclaimed; and a session that is assigned a piece, that one included,
\* gets the whole piece and starts from nothing: downloaded, requested and
\* backlog 0, a zeroed buffer of the size of the piece, and its first REQUEST
\* at offset 0.
C36_ClosedPieceStartsOver ==
  [][ /\ ( /\ lastOp'.kind = "close"
           /\ peers[lastOp'.peer].status = "ready"
           /\ peers[lastOp'.peer].currentPiece # {} )
         => LET work == CHOOSE w \in peers[lastOp'.peer].currentPiece : TRUE
            IN  /\ work = Work(work.index)
                /\ IF /\ result.collection[work.index] = Undefined
                      /\ \A k \in 1..Len(pending) :
                           pending[k].work.index = work.index
                             => pending[k].peer = lastOp'.peer
                   THEN unclaimed' = Append(unclaimed, work)
                   ELSE unclaimed' = unclaimed
      /\ \A c \in lastOp'.calls :
           LET piece == CHOOSE w \in peers'[c.peer].currentPiece : TRUE
               fresh == NewCurrentPiece(piece)
               s == FreshlyAssigned(piece)
           IN  /\ peers'[c.peer].currentPiece = { Work(c.index) }
               /\ fresh.work = Work(c.index)
               /\ fresh.downloaded = 0
               /\ fresh.requested = 0
               /\ fresh.backlog = 0
               /\ fresh.buff = [b \in 1..Work(c.index).size |-> 0]
               /\ Requests(s) # {}
               /\ \A r \in Requests(s) :
                    (\A o \in Requests(s) : r <= o)
                      => s.sent[r] = Sent(MSG_REQUEST, c.index, 0,
                                          Min(MAX_REQUEST_SIZE,
                                              Work(c.index).size))
    ]_vars

\* C36 witness: a peer that just became ready is assigned, from unclaimed,
\* the piece that the only other session that ever worked held when it closed
C36_Witness ==
  /\ lastOp.kind = "ready"
  /\ \E q \in Peers, c \in lastOp.calls :
       /\ q # lastOp.peer
       /\ c.peer = lastOp.peer
       /\ peers[q].status = "closed"
       /\ peers[q].currentPiece = { Work(c.index) }
       /\ \E a \in lastOp.assigned : a.index = c.index /\ ~a.redundant
       /\ \A o \in Peers \ { q, lastOp.peer } : peers[o].status = "connecting"

\* Every byte of every completed piece was written by a PIECE block (the
\* blocks the remote peer sends carry no zero byte)
C38_CompletedFilled ==
  \A j \in 1..Len(session.completed) :
    \A b \in 1..Len(session.completed[j].buff) :
      session.completed[j].buff[b] # 0

\* The byte count of the assignment has not passed the size of the piece
C38_CountWithinSize ==
  session.currentPiece # {}
    => CurrentPiece(session).downloaded <= CurrentPiece(session).work.size

\* C38: the session emits its completion event only when every byte range of
\* the piece was received: duplicated or overlapping PIECE blocks of the
\* current piece neither complete it with an unfilled range nor take the byte
\* count past work.size, from where it could never complete.
C38_CompleteMeansEveryRange ==
  /\ C38_CompletedFilled
  /\ C38_CountWithinSize

\* C39: the handshake is validated only once all of its 68 bytes have
\* arrived: a 'data' event that leaves a valid handshake incomplete neither
\* ends the connection nor completes the handshake nor moves the cursor, and
\* the handshake is complete only when all of it has arrived.
C39_HandshakeValidatedWhole ==
  /\ []((remote.handshake = "valid" /\ session.handshakeComplete)
          => Delivered >= Len(RemoteHandshake("valid")))
  /\ [][ ( /\ remote.handshake = "valid"
           /\ Len(wire') < Len(wire)
           /\ Len(session'.receivedData) < Len(RemoteHandshake("valid"))
           /\ ~session.handshakeComplete )
         => /\ session'.ended = session.ended
            /\ ~session'.handshakeComplete
            /\ session'.amountRead = 0
       ]_vars

\* ------------------------------------------------ claims on the EventQueue
\* C40: remove(obj) removes obj when it is in the queue (one occurrence, the
\* rest in order) and leaves the queue as it is when obj is not in it; no
\* other element is removed.
C40_RemoveOnlyWhatWasAsked ==
  [][ lastOp'.kind = "remove" =>
        LET obj == lastOp'.peer
        IN IF \E k \in 1..Len(totalConnected) : totalConnected[k] = obj
           THEN \E k \in 1..Len(totalConnected) :
                  /\ totalConnected[k] = obj
                  /\ totalConnected' = RemoveAt(totalConnected, k)
           ELSE totalConnected' = totalConnected
    ]_vars

\* --------------------------------------------------- claims on progress
\* The output stream drains: a 'drain' that is due is eventually emitted
SpecLive ==
  Spec /\ WF_vars(\E k \in 1..NPieces, ok \in BOOLEAN : Drain(k, ok))

\* The bitfield has every piece of the descriptor
HasEveryPiece(bitfield) == \A i \in Pieces : hasPiece(bitfield, i)

\* The peer answers the requests of its assignment until the piece is whole:
\* an assignment of the session does not stay with it for ever
Delivers(g) ==
  \A i \in Pieces :
    [](peers[g].currentPiece = { Work(i) }
         => <>(peers[g].currentPiece # { Work(i) }))

\* C37: if some peer becomes ready with every piece in the bitfield it sent,
\* never closes, and
\* delivers every piece it is assigned with the right data, then with a
\* draining output stream the collector eventually holds every piece and
\* 'write complete' is emitted, whatever the other peers do.
C37_GoodPeerFinishes ==
  \A g \in Peers :
    ( /\ [](peers[g].status # "closed")
      /\ <>(peers[g].status = "ready")
      /\ [](peers[g].status = "ready" => HasEveryPiece(peers[g].bitfield))
      /\ []((lastOp.kind = "complete" /\ lastOp.peer = g) => lastOp.hashOk)
      /\ Delivers(g) )
    => <>(isComplete(result) /\ emitted.writeComplete = 1)

\* C37 witness: 'write complete' was emitted on the last delivery of a peer
\* that has every piece, while another ready session never delivered the
\* piece it still holds
C37_Witness ==
  /\ isComplete(result)
  /\ emitted.writeComplete = 1
  /\ lastOp.kind = "complete"
  /\ lastOp.hashOk
  /\ peers[lastOp.peer].status = "ready"
  /\ HasEveryPiece(peers[lastOp.peer].bitfield)
  /\ \E o \in Peers \ { lastOp.peer } :
       /\ peers[o].status = "ready"
       /\ peers[o].currentPiece # {}

\* ------------------------------------------------ claims on the work list
RECURSIVE SizeSum(_)
SizeSum(works) ==
  IF works = << >> THEN 0
  ELSE works[Len(works)].size + SizeSum(SubSeq(works, 1, Len(works) - 1))

\* C34: the work list has one entry per piece hash, in index order; every
\* entry but the last has the piece length as its size, the last has
\* length - pieceSize * (numPieces - 1); the sizes are positive and add up to
\* the length of the download.
C34_WorkListSizes ==
  /\ Len(unclaimed) <= lastOp.numPieces
  /\ \A j \in 1..Len(unclaimed) :
       /\ unclaimed[j].index = j - 1
       /\ unclaimed[j].size > 0
       /\ unclaimed[j].size =
            IF j < lastOp.numPieces THEN lastOp.pieceSize
            ELSE lastOp.length - lastOp.pieceSize * (lastOp.numPieces - 1)
  /\ Len(unclaimed) = lastOp.numPieces => SizeSum(unclaimed) = lastOp.length

\* C34 witness: a finished list of several pieces whose last piece is shorter
\* than the others
C34_Witness ==
  /\ lastOp.numPieces > 1
  /\ Len(unclaimed) = lastOp.numPieces
  /\ unclaimed[Len(unclaimed)].size < lastOp.pieceSize

====
